---- MODULE Spec2Model ----
(***************************************************************************)
(* Visit journey controller of the field-sales app: the visit schedule     *)
(* screen (components/VisitsSchedule.tsx, latest revision, lines 640 on)   *)
(* and the location tracking helper (lib/tracking.ts), against the remote  *)
(* tables visits, sample_distribution and weekly_schedules.                *)
(*                                                                         *)
(* Every handler is cut at its remote calls: pressing a control runs the   *)
(* synchronous prefix of the handler and leaves a task in flight; each     *)
(* later step of the task is one remote call (its effect on the tables, or *)
(* its failure) followed by the local code up to the next remote call.     *)
(* Free text without logic (summary, client name, specialty, area) is left *)
(* out; the notes column keeps only its formatted sample list.             *)
(***************************************************************************)
EXTENDS Integers, Sequences, FiniteSets, TLC

VARIABLES
  visitsDb,     \* table visits: sequence of rows, id = index
  stockDb,      \* table sample_distribution: sequence of rows, id = index
  weeklyDb,     \* table weekly_schedules: set of rows, unique on (username, week_start)
  ui,           \* per session: the React state of VisitsSchedule
  tracker,      \* per session: AsyncStorage keys and stream handles of lib/tracking.ts
  tasks,        \* per session: handler invocations in flight (sequence of task records)
  currentUser,  \* per session: the username given by the login screen ("" when none)
  faults,       \* remote failures the environment may still inject
  event,        \* what the last step reported to the user (alerts, rejections)
  applied,      \* per visit and sample type: stock decrements written for it (history)
  tracksDb,     \* table visit_tracks: sequence of the location rows inserted
  halted        \* per session: a stopTracking call has completed and no startTracking
                \* call invoked after it has succeeded yet (history)

vars == <<visitsDb, stockDb, weeklyDb, ui, tracker, tasks, currentUser, faults, event,
          applied, tracksDb, halted>>

----------------------------------------------------------------------------
(* Bounds of the model *)

MaxLines  == 2   \* sample lines in the finish modal
MaxQty    == 1   \* largest quantity typed in one line
MaxVisits == 2   \* rows of the visits table
MaxFaults == 1   \* injected remote failures per behaviour
InitQtyA  == 2   \* seeded stock of VitA
InitQtyB  == 1   \* seeded stock of Zinc
MaxCalls  == 2   \* startTracking and stopTracking calls in flight on one device
MaxSamples == 1  \* location rows inserted or in flight

----------------------------------------------------------------------------
(* Values *)

NULL     == "<null>"     \* null of a nullable string column or state
NoVisit  == 0            \* null of a visit id
Sessions == {1, 2}
Rep      == "rep1"
OtherRep == "rep2"

\* Calendar: a date is its day number, 1 = 2025-09-01 (a Monday), so ISO string
\* order is number order.  Months are 9 (September) and 10 (October) of 2025.
MinMonth == 9
MaxMonth == 10
SepLen   == 30
OctLen   == 31
Today    == 30
Days     == <<30, 31>>   \* dates the model uses, ascending: Sep 30 (Tue), Oct 1 (Wed)
DaySet   == {Days[i] : i \in 1..Len(Days)}

AllTypes == <<"VitA", "Zinc", "vita">>   \* sample types, in the order the model sorts them
TypeSet  == {AllTypes[i] : i \in 1..Len(AllTypes)}
NoteTypes == {"SALES ORDER", "RFR", "COLLECTION"}

\* String.prototype.toLowerCase on the sample types
ToLowerCase(t) == IF t = "VitA" THEN "vita" ELSE IF t = "Zinc" THEN "zinc" ELSE t

----------------------------------------------------------------------------
(* Sequence helpers *)

RemoveAt(seq, k) == [i \in 1..(Len(seq) - 1) |-> IF i < k THEN seq[i] ELSE seq[i + 1]]

RECURSIVE SortByDate(_, _)
\* rows ordered by visit_date ascending (.order('visit_date')): one pass per date
SortByDate(seq, i) ==
  IF i > Len(Days) THEN <<>>
  ELSE LET OnDay(r) == r.visit_date = Days[i]
       IN SelectSeq(seq, OnDay) \o SortByDate(seq, i + 1)

RECURSIVE SortByType(_, _)
\* stock rows ordered by sample_type ascending (.order('sample_type'))
SortByType(seq, i) ==
  IF i > Len(AllTypes) THEN <<>>
  ELSE LET OfType(r) == r.sample_type = AllTypes[i]
       IN SelectSeq(seq, OfType) \o SortByType(seq, i + 1)

----------------------------------------------------------------------------
(* Calendar helpers (VisitsSchedule.tsx, helpers) *)

MonthOf(d) == IF d <= SepLen THEN 9 ELSE 10

\* monthRange(year, month0): first and last day of the month
monthRange(m) ==
  IF m = 9 THEN [start |-> 1, end |-> SepLen]
  ELSE [start |-> SepLen + 1, end |-> SepLen + OctLen]

\* Date.getDay(): 0 = Sunday; day 1 is a Monday
GetDay(d) == d % 7

\* faulty variant: getDay() is used as it is, Sunday = 0
weekRangeSundayFirst(d) ==
  [start |-> d - (GetDay(d) - 1), end |-> d - (GetDay(d) - 1) + 6]

\* weekRangeFromISO(iso): Monday and Sunday of the week holding the date
weekRangeFromISO(d) ==
  LET day    == IF GetDay(d) = 0 THEN 7 ELSE GetDay(d)
      monday == d - (day - 1)
  IN [start |-> monday, end |-> monday + 6]

----------------------------------------------------------------------------
(* Rows *)

\* notes = null; a written notes value is [set |-> TRUE, samples |-> the sample list]
NoNotes == [set |-> FALSE, samples |-> <<>>]

\* a row of the visits table as addVisit inserts it
NewVisitRow(id, date, by) ==
  [id |-> id, visit_date |-> date, status |-> "planned", visited_by |-> by,
   note_type |-> NULL, notes |-> NoNotes, sample_type |-> <<>>, sample_distributed |-> <<>>]

\* me: the trimmed username of the logged-in user, or null
Me(s) == IF currentUser[s] = "" THEN NULL ELSE currentUser[s]

\* the filter of load(): the month's visits of the rep, or unassigned
LoadQuery(db, me, m) ==
  LET InRange(r) == /\ r.visit_date >= monthRange(m).start
                    /\ r.visit_date <= monthRange(m).end
                    /\ IF me # NULL THEN r.visited_by \in {me, NULL}
                                     ELSE r.visited_by = NULL
  IN SortByDate(SelectSeq(db, InRange), 1)

\* the rows loadSampleStock(u) puts in the stock state
StockQuery(db, u) ==
  LET Mine(r) == r.username = u
  IN SortByType(SelectSeq(db, Mine), 1)

\* byDate.get(selectedDay) ?? []
DayVisits(s) ==
  LET OnDay(r) == r.visit_date = ui[s].selectedDay
  IN SelectSeq(ui[s].rows, OnDay)

\* prev.map(r => r.id === id ? f(r) : r), upd[i] being f of the i-th row; the same
\* for a remote update filtered by .eq('id', id)
MapRow(rws, id, upd) == [i \in 1..Len(rws) |-> IF rws[i].id = id THEN upd[i] ELSE rws[i]]

----------------------------------------------------------------------------
(* lib/tracking.ts.  tracker[s] holds the two AsyncStorage keys (user: NULL when
   the key is absent, visit: NoVisit when absent), the web watch handle
   (webWatchId, 0 = null), the number of position watches registered with the
   browser, the userName the callback of the held watch closed over (watchUser),
   whether the native location updates are started, and the platform. *)

\* AsyncStorage.setItem(STORAGE_USER, userName ?? '')
StoreUser(tr, userName) == [tr EXCEPT !.user = IF userName = NULL THEN "" ELSE userName]

\* faulty variant: the watch is cleared but the handle is kept
stopWebWatchKeepsId(tr) ==
  IF tr.webWatchId # 0 THEN [tr EXCEPT !.watches = @ - 1, !.watchUser = NULL] ELSE tr

\* stopWebWatch(): clear the held watch, if any
stopWebWatch(tr) ==
  IF tr.webWatchId # 0
  THEN [tr EXCEPT !.watches = @ - 1, !.webWatchId = 0, !.watchUser = NULL]
  ELSE tr

\* faulty variant: the browser watch is registered without clearing the held one
StartStreamKeepsWatch(tr, userName) ==
  IF tr.web
  THEN [tr EXCEPT !.watches = @ + 1, !.webWatchId = 1, !.watchUser = userName]
  ELSE IF ~tr.started THEN [tr EXCEPT !.started = TRUE] ELSE tr

\* the stream part of startTracking: web watchPosition after stopWebWatch (the
\* callback closes over userName), or native startLocationUpdatesAsync unless
\* already started
StartStream(tr, userName) ==
  IF tr.web
  THEN [stopWebWatch(tr) EXCEPT !.watches = @ + 1, !.webWatchId = 1, !.watchUser = userName]
  ELSE IF ~tr.started THEN [tr EXCEPT !.started = TRUE] ELSE tr

\* startTracking(userName) once the foreground permission is granted
startTracking(tr, userName) == StartStream(StoreUser(tr, userName), userName)

\* the stream part of stopTracking
StopStream(tr) ==
  IF tr.web THEN stopWebWatch(tr)
  ELSE IF tr.started THEN [tr EXCEPT !.started = FALSE] ELSE tr

\* stopTracking(): remove both keys, then stop the stream
stopTracking(tr) == StopStream([tr EXCEPT !.user = NULL, !.visit = NoVisit])

\* faulty variant: binding a visit also restarts the stream
setCurrentVisitIdRestarts(tr, visitId) == StartStream([tr EXCEPT !.visit = visitId], tr.user)

\* setCurrentVisitId(visitId): set the key, or remove it for null
setCurrentVisitId(tr, visitId) == [tr EXCEPT !.visit = visitId]

\* a location stream is emitting
Streaming(tr) == IF tr.web THEN tr.watches > 0 ELSE tr.started

\* tracking is not running: no stream and neither key stored
Idle(tr) == ~Streaming(tr) /\ tr.user = NULL /\ tr.visit = NoVisit

----------------------------------------------------------------------------
(* Sample lines.  A line is [type, qty]: type "" when no pill is chosen, qty the
   number the digits-only text field holds (0 for the empty field). *)

EmptyLine == [type |-> "", qty |-> 0]
NoError   == [type |-> "", avail |-> 0, requested |-> 0]   \* sampleError = null

RECURSIVE SumQty(_, _, _)
\* the quantity the lines i.. request of type t (lines without type or quantity skipped)
SumQty(lines, t, i) ==
  IF i > Len(lines) THEN 0
  ELSE (IF lines[i].type = t /\ lines[i].qty # 0 THEN lines[i].qty ELSE 0)
       + SumQty(lines, t, i + 1)

\* stock.find(s => s.sample_type.toLowerCase() === t.toLowerCase())?.qty ?? 0
AvailIn(stk, t) ==
  LET hits == {i \in 1..Len(stk) : ToLowerCase(stk[i].sample_type) = ToLowerCase(t)}
  IN IF hits = {} THEN 0
     ELSE stk[CHOOSE i \in hits : \A j \in hits : i <= j].qty

\* the first requested type, in line order, that asks for more than is available
Shortfall(stk, lines) ==
  LET Counted(i) == lines[i].type # "" /\ lines[i].qty # 0
      bad == {i \in 1..Len(lines) :
                /\ Counted(i)
                /\ SumQty(lines, lines[i].type, 1) > AvailIn(stk, lines[i].type)}
  IN IF bad = {} THEN NoError
     ELSE LET i == CHOOSE i \in bad : \A j \in bad : i <= j
          IN [type |-> lines[i].type, avail |-> AvailIn(stk, lines[i].type),
              requested |-> SumQty(lines, lines[i].type, 1)]

\* validateRequestedSamples(lines): the sampleError it sets (NoError = it returns true)
validateRequestedSamples(stk, lines) ==
  IF Len(stk) = 0 THEN NoError ELSE Shortfall(stk, lines)

\* endJourneyConfirm: a line with a quantity and no type stops the save
NeedsType(lines) == \E i \in 1..Len(lines) : lines[i].type = "" /\ lines[i].qty # 0

RECURSIVE EntriesFrom(_, _)
\* Array.from(reqMap.entries()).sort(by type): one [type, qty] per requested type
EntriesFrom(lines, i) ==
  IF i > Len(AllTypes) THEN <<>>
  ELSE LET t == AllTypes[i]
           q == SumQty(lines, t, 1)
       IN (IF q > 0 THEN <<[type |-> t, qty |-> q]>> ELSE <<>>) \o EntriesFrom(lines, i + 1)

\* faulty variant: one entry per filled line, same types not merged
EntriesNoMerge(lines) ==
  LET Filled(l) == l.type # "" /\ l.qty # 0
  IN SelectSeq(lines, Filled)

Entries(lines) == EntriesFrom(lines, 1)

TypesOf(entries) == [i \in 1..Len(entries) |-> entries[i].type]
QtysOf(entries)  == [i \in 1..Len(entries) |-> entries[i].qty]

\* newNotes: the formatted sample list (the summary text is left out)
NotesOf(entries) == [set |-> TRUE, samples |-> entries]

----------------------------------------------------------------------------
(* sample_distribution *)

\* faulty variant: the type is compared case by case
SampleMatchesExactCase(db, u, type) ==
  {i \in 1..Len(db) : db[i].username = u /\ db[i].sample_type = type}

\* the rows .eq('username', u).ilike('sample_type', type) matches
SampleMatches(db, u, type) ==
  {i \in 1..Len(db) : db[i].username = u /\ ToLowerCase(db[i].sample_type) = ToLowerCase(type)}

\* decrementStock: the row inserted when findSampleRow finds none
NewStockRow(db, u, type) ==
  [id |-> Len(db) + 1, username |-> u, sample_type |-> type, qty |-> 0]

\* faulty variant: the subtraction without the floor
NewQtyUnfloored(qty, delta) == qty - delta

\* decrementStock: newQty = Math.max(0, row.qty - delta)
NewQty(qty, delta) == IF qty - delta > 0 THEN qty - delta ELSE 0

----------------------------------------------------------------------------
(* Handler invocations in flight.  A task holds what the closure of the handler
   captured (vid, who, lines, entries, started, ...), its position (pc, idx), and
   four history fields the properties read: before (the rep's stored stock at
   Save), short (the request exceeded it), redo (the visit was already stored
   done) and stale (a stopTracking call completed while this call was in flight). *)

BlankTask ==
  [kind |-> "none", pc |-> "none", vid |-> NoVisit, nextStatus |-> "", visitedBy |-> NULL,
   who |-> NULL, capActive |-> NoVisit, entries |-> <<>>, noteType |-> "", idx |-> 0,
   rowId |-> 0, rowQty |-> 0, month |-> 0, selDay |-> 0, date |-> 0, payload |-> <<>>,
   lines |-> <<>>, short |-> FALSE, redo |-> FALSE, before |-> <<>>, started |-> FALSE,
   stale |-> FALSE]

SetUi(s, r)     == ui' = [ui EXCEPT ![s] = r]
SetTracker(s, r) == tracker' = [tracker EXCEPT ![s] = r]
Spawn(s, t)     == tasks' = [tasks EXCEPT ![s] = Append(@, t)]
Finish(s, k)    == tasks' = [tasks EXCEPT ![s] = RemoveAt(@, k)]
Goto(s, k, t)   == tasks' = [tasks EXCEPT ![s][k] = t]

\* outcomes of a remote call: TRUE = it succeeds
Outcomes == IF faults > 0 THEN {TRUE, FALSE} ELSE {TRUE}
Charge(ok) == faults' = IF ok THEN faults ELSE faults - 1

server == <<visitsDb, stockDb, weeklyDb, applied, tracksDb, halted>>

\* a modal overlay covers the screen
ModalOpen(s) == ui[s].showFinishModal \/ ui[s].showAddModal

----------------------------------------------------------------------------
(* load / refresh (VisitsSchedule.tsx 710-768) *)

\* load() begins: setLoading(true); setErrorMsg(null)
LoadStart(u) == [u EXCEPT !.loading = TRUE, !.errorMsg = FALSE]

\* load() got the rows: setRows(normalized), move the selected day into the month
LoadDone(u, t, db, me) ==
  LET normalized == LoadQuery(db, me, t.month)
  IN [u EXCEPT !.rows = normalized,
               !.selectedDay = IF MonthOf(t.selDay) # t.month
                               THEN IF Len(normalized) > 0 THEN normalized[1].visit_date
                                    ELSE monthRange(t.month).start
                               ELSE @,
               !.loading = FALSE]

\* load() failed: setErrorMsg
LoadFailed(u) == [u EXCEPT !.errorMsg = TRUE, !.loading = FALSE]

\* the task a load() call of the current render leaves in flight
LoadTask(s, u) ==
  [BlankTask EXCEPT !.kind = "load", !.pc = "load", !.month = u.month, !.selDay = u.selectedDay]

\* the remote select of a load() called from the effect or the Retry button
LoadStep(s, k) ==
  /\ tasks[s][k].kind = "load"
  /\ \E ok \in Outcomes :
       /\ Charge(ok)
       /\ SetUi(s, IF ok THEN LoadDone(ui[s], tasks[s][k], visitsDb, Me(s))
                         ELSE LoadFailed(ui[s]))
       /\ event' = IF ok THEN "none" ELSE "loadFailed"
  /\ Finish(s, k)
  /\ UNCHANGED <<server, tracker, currentUser>>

\* Retry button of the calendar, shown while errorMsg is set
Retry(s, lim) ==
  /\ ui[s].errorMsg /\ ~ui[s].loading /\ ~ModalOpen(s)
  /\ Len(tasks[s]) < lim
  /\ SetUi(s, LoadStart(ui[s]))
  /\ Spawn(s, LoadTask(s, ui[s]))
  /\ event' = "none"
  /\ UNCHANGED <<server, tracker, currentUser, faults>>

\* prevMonth / nextMonth: change the month, drop the journey state, unbind the visit;
\* the [year, month] effect then calls load()
MonthNav(s, m, lim) ==
  /\ ~ModalOpen(s)
  /\ m \in {ui[s].month - 1, ui[s].month + 1}
  /\ m >= MinMonth /\ m <= MaxMonth
  /\ Len(tasks[s]) < lim
  /\ LET u == [ui[s] EXCEPT !.month = m, !.journeyMode = FALSE, !.activeVisitId = NoVisit]
     IN /\ SetUi(s, LoadStart(u))
        /\ Spawn(s, LoadTask(s, u))
  /\ SetTracker(s, setCurrentVisitId(tracker[s], NoVisit))
  /\ event' = "none"
  /\ UNCHANGED <<server, currentUser, faults>>

\* the cells of buildCalendarGrid(year, month): the month's weeks, Monday to Sunday
InGrid(m, d) ==
  /\ d >= weekRangeFromISO(monthRange(m).start).start
  /\ d <= weekRangeFromISO(monthRange(m).end).end

\* a calendar cell is pressed: onSelectDay(key)
SelectDay(s, d) ==
  /\ ~ui[s].loading /\ ~ui[s].errorMsg /\ ~ModalOpen(s)
  /\ d \in DaySet /\ InGrid(ui[s].month, d)
  /\ d # ui[s].selectedDay
  /\ SetUi(s, [ui[s] EXCEPT !.selectedDay = d])
  /\ event' = "none"
  /\ UNCHANGED <<server, tracker, tasks, currentUser, faults>>

----------------------------------------------------------------------------
(* journey actions (VisitsSchedule.tsx 856-932) *)

\* faulty variant: the empty-day return is missing
NeverRejects(s) == FALSE

\* startJourney: if (dayVisits.length === 0) return
StartJourneyRejects(s) == Len(DayVisits(s)) = 0

\* who of startJourney: (v?.visited_by ?? me) ?? null, v the active visit's row
StartWho(s) ==
  LET id == ui[s].activeVisitId
      hit == {i \in 1..Len(ui[s].rows) : ui[s].rows[i].id = id}
  IN IF id # NoVisit /\ hit # {} /\ ui[s].rows[CHOOSE i \in hit : TRUE].visited_by # NULL
     THEN ui[s].rows[CHOOSE i \in hit : TRUE].visited_by
     ELSE Me(s)

\* Start Journey is pressed (the button is rendered outside a journey) and
\* startJourney goes on to startTracking
StartJourney(s, lim) ==
  /\ ~ui[s].journeyMode /\ ~ModalOpen(s)
  /\ ~StartJourneyRejects(s)
  /\ Len(tasks[s]) < lim
  /\ Spawn(s, [BlankTask EXCEPT !.kind = "start", !.pc = "perm", !.who = StartWho(s)])
  /\ event' = "none"
  /\ UNCHANGED <<server, ui, tracker, currentUser, faults>>

\* startJourney is invoked and returns at once
StartJourneyIgnored(s) ==
  /\ ~ui[s].journeyMode /\ ~ModalOpen(s)
  /\ StartJourneyRejects(s)
  /\ event' = "startIgnored"
  /\ UNCHANGED <<server, ui, tracker, tasks, currentUser, faults>>

\* faulty variant: the rep is stored before the permission is looked at
DeniedAfterStore(tr, userName) == StoreUser(tr, userName)

\* startTracking(userName) when the foreground permission is refused: it throws
\* before the first write
PermissionDenied(tr, userName) == tr

\* startTracking answers: the foreground permission is granted or refused
StartStep(s, k) ==
  /\ tasks[s][k].kind = "start"
  /\ \E granted \in BOOLEAN :
       IF granted
       THEN /\ SetTracker(s, setCurrentVisitId(startTracking(tracker[s], tasks[s][k].who), NoVisit))
            /\ SetUi(s, [ui[s] EXCEPT !.journeyMode = TRUE, !.activeVisitId = NoVisit])
            /\ event' = "none"
       ELSE /\ SetTracker(s, PermissionDenied(tracker[s], tasks[s][k].who))
            /\ event' = "permissionDenied"
            /\ UNCHANGED ui
  /\ Finish(s, k)
  /\ UNCHANGED <<server, currentUser, faults>>

\* faulty variant: the journey and the modal are not looked at
SelectRejectsTerminalOnly(s, visit) == visit.status \in {"done", "skipped"}

\* selectVisit: the three early returns
SelectVisitRejects(s, visit) ==
  \/ ~ui[s].journeyMode
  \/ ui[s].showFinishModal
  \/ visit.status \in {"done", "skipped"}

\* selectVisit: nextStatus
NextStatus(status) == IF status = "en_route" THEN "planned" ELSE "en_route"

\* selectVisit is invoked on the j-th visit of the day and returns at once
SelectVisitIgnored(s, j) ==
  /\ j \in 1..Len(DayVisits(s))
  /\ SelectVisitRejects(s, DayVisits(s)[j])
  /\ event' = "selectIgnored"
  /\ UNCHANGED <<server, ui, tracker, tasks, currentUser, faults>>

\* the checkbox of the j-th visit of the day is pressed and selectVisit goes on
SelectVisit(s, j, lim) ==
  /\ j \in 1..Len(DayVisits(s))
  /\ LET visit == DayVisits(s)[j]
     IN      /\ ~SelectVisitRejects(s, visit)
             /\ ~ui[s].showAddModal
             /\ Len(tasks[s]) < lim
             /\ Spawn(s, [BlankTask EXCEPT
                    !.kind = "select", !.pc = "upd", !.vid = visit.id,
                    !.nextStatus = NextStatus(visit.status),
                    !.visitedBy = visit.visited_by,
                    !.who = IF visit.visited_by # NULL THEN visit.visited_by ELSE Me(s),
                    !.capActive = ui[s].activeVisitId])
             /\ event' = "none"
  /\ UNCHANGED <<server, ui, tracker, currentUser, faults>>

\* the row update of selectVisit: status and visited_by
SelectWrite(row, t) ==
  [row EXCEPT !.status = t.nextStatus,
              !.visited_by = IF t.nextStatus = "en_route" THEN t.who
                             ELSE IF t.visitedBy # NULL THEN t.visitedBy ELSE t.who]

\* setRows of selectVisit
SelectLocal(row, t) ==
  [row EXCEPT !.status = t.nextStatus,
              !.visited_by = IF t.nextStatus = "en_route"
                             THEN (IF t.who # NULL THEN t.who ELSE @)
                             ELSE @]

\* the binding selectVisit leaves: [activeVisitId, bind] with bind = the tracker is told
SelectBinding(u, t) ==
  IF t.nextStatus = "en_route" THEN [bind |-> TRUE, id |-> t.vid]
  ELSE IF t.capActive = t.vid THEN [bind |-> TRUE, id |-> NoVisit]
  ELSE [bind |-> FALSE, id |-> u.activeVisitId]

\* the remote update of selectVisit answers
SelectStep(s, k) ==
  /\ tasks[s][k].kind = "select"
  /\ LET t == tasks[s][k]
         b == SelectBinding(ui[s], t)
         srv == [i \in 1..Len(visitsDb) |-> SelectWrite(visitsDb[i], t)]
         loc == [i \in 1..Len(ui[s].rows) |-> SelectLocal(ui[s].rows[i], t)]
     IN \E ok \in Outcomes :
          /\ Charge(ok)
          /\ IF ok
             THEN /\ visitsDb' = MapRow(visitsDb, t.vid, srv)
                  /\ SetUi(s, [ui[s] EXCEPT !.rows = MapRow(@, t.vid, loc),
                                            !.activeVisitId = b.id])
                  /\ SetTracker(s, IF b.bind THEN setCurrentVisitId(tracker[s], b.id)
                                   ELSE tracker[s])
                  /\ event' = "none"
             ELSE /\ event' = "statusFailed"
                  /\ UNCHANGED <<visitsDb, ui, tracker>>
  /\ Finish(s, k)
  /\ UNCHANGED <<stockDb, weeklyDb, applied, currentUser, tracksDb, halted>>

\* what endJourneyOpen sets before it loads the stock
OpenModal(u, who) ==
  [u EXCEPT !.resolvedUsername = who, !.noteType = "SALES ORDER",
            !.sampleLines = <<EmptyLine>>, !.sampleError = NoError,
            !.showFinishModal = TRUE, !.loadingSamples = TRUE]

\* endJourneyOpen: who = (v?.visited_by ?? '').trim(), v the active visit's row
OpenWho(s) ==
  LET hit == {i \in 1..Len(ui[s].rows) : ui[s].rows[i].id = ui[s].activeVisitId}
  IN IF hit = {} THEN "" ELSE
     LET by == ui[s].rows[CHOOSE i \in hit : TRUE].visited_by
     IN IF by = NULL THEN "" ELSE by

\* endJourneyOpen: the two early returns (no active visit; no visitor and no user)
EndJourneyOpenRejects(s) ==
  \/ ui[s].activeVisitId = NoVisit
  \/ OpenWho(s) = "" /\ Me(s) = NULL

\* endJourneyOpen is invoked and returns at once with an alert
EndJourneyOpenIgnored(s) ==
  /\ ui[s].journeyMode /\ ~ModalOpen(s)
  /\ EndJourneyOpenRejects(s)
  /\ event' = IF ui[s].activeVisitId = NoVisit THEN "endNoVisit" ELSE "endNoUser"
  /\ UNCHANGED <<server, ui, tracker, tasks, currentUser, faults>>

\* End Journey is pressed (the button is rendered during a journey)
EndJourneyOpen(s, lim) ==
  /\ ui[s].journeyMode /\ ~ModalOpen(s)
  /\ ~EndJourneyOpenRejects(s)
  /\ LET id  == ui[s].activeVisitId
         by  == OpenWho(s)
     IN IF by = ""
        THEN      /\ Len(tasks[s]) < lim
                  /\ Spawn(s, [BlankTask EXCEPT !.kind = "open", !.pc = "claim",
                                                     !.vid = id, !.who = Me(s)])
                  /\ event' = "none"
                  /\ UNCHANGED ui
        ELSE /\ Len(tasks[s]) < lim
             /\ SetUi(s, OpenModal(ui[s], by))
             /\ Spawn(s, [BlankTask EXCEPT !.kind = "open", !.pc = "stock",
                                                !.vid = id, !.who = by])
             /\ event' = "none"
  /\ UNCHANGED <<server, tracker, currentUser, faults>>

\* loadSampleStock answers: setStock(rows of u), or setStock([]) on failure
StockLoaded(u, db, who, ok) ==
  [u EXCEPT !.stock = IF ok THEN StockQuery(db, who) ELSE <<>>, !.loadingSamples = FALSE]

\* the remote calls of endJourneyOpen: the visitor claim, then the stock load
OpenStep(s, k) ==
  /\ tasks[s][k].kind = "open"
  /\ LET t == tasks[s][k]
         srv == [i \in 1..Len(visitsDb) |-> [visitsDb[i] EXCEPT !.visited_by = t.who]]
         loc == [i \in 1..Len(ui[s].rows) |-> [ui[s].rows[i] EXCEPT !.visited_by = t.who]]
     IN \E ok \in Outcomes :
          /\ Charge(ok)
          /\ IF t.pc = "claim"
             THEN IF ok
                  THEN /\ visitsDb' = MapRow(visitsDb, t.vid, srv)
                       /\ SetUi(s, OpenModal([ui[s] EXCEPT !.rows = MapRow(@, t.vid, loc)], t.who))
                       /\ Goto(s, k, [t EXCEPT !.pc = "stock"])
                       /\ event' = "none"
                  ELSE /\ event' = "claimFailed"
                       /\ Finish(s, k)
                       /\ UNCHANGED <<visitsDb, ui>>
             ELSE /\ SetUi(s, StockLoaded(ui[s], stockDb, t.who, ok))
                  /\ Finish(s, k)
                  /\ event' = IF ok THEN "none" ELSE "stockLoadFailed"
                  /\ UNCHANGED visitsDb
  /\ UNCHANGED <<stockDb, weeklyDb, applied, tracker, currentUser, tracksDb, halted>>

----------------------------------------------------------------------------
(* the finish modal (VisitsSchedule.tsx 934-985, 1193-1303) *)

\* the sample lines are rendered unless the stock is empty and not loading
LinesShown(s) ==
  /\ ui[s].showFinishModal /\ ~ui[s].showAddModal
  /\ ~(Len(ui[s].stock) = 0 /\ ~ui[s].loadingSamples)

\* a line edit: setSampleLines(newLines) with validateRequestedSamples(newLines);
\* a shortfall also shows the error toast, which replaces the "sending" status
EditLines(s, newLines) ==
  LET err == validateRequestedSamples(ui[s].stock, newLines)
  IN /\ SetUi(s, [ui[s] EXCEPT !.sampleLines = newLines, !.sampleError = err,
                               !.sending = IF err # NoError THEN FALSE ELSE @])
     /\ event' = "none"
     /\ UNCHANGED <<server, tracker, tasks, currentUser, faults>>

\* a stock pill of line idx is pressed
setLineType(s, idx, p) ==
  /\ LinesShown(s)
  /\ idx \in 1..Len(ui[s].sampleLines)
  /\ p \in 1..Len(ui[s].stock)
  /\ ui[s].sampleLines[idx].type # ui[s].stock[p].sample_type
  /\ EditLines(s, [ui[s].sampleLines EXCEPT ![idx].type = ui[s].stock[p].sample_type])

\* the quantity field of line idx is edited
setLineQty(s, idx, q) ==
  /\ LinesShown(s)
  /\ idx \in 1..Len(ui[s].sampleLines)
  /\ q \in 0..MaxQty
  /\ ui[s].sampleLines[idx].qty # q
  /\ EditLines(s, [ui[s].sampleLines EXCEPT ![idx].qty = q])

\* "+ Add another sample"
addLine(s) ==
  /\ LinesShown(s)
  /\ Len(ui[s].sampleLines) < MaxLines
  /\ EditLines(s, Append(ui[s].sampleLines, EmptyLine))

\* the remove button of line idx, rendered when there are several lines
removeLine(s, idx) ==
  /\ LinesShown(s)
  /\ Len(ui[s].sampleLines) > 1
  /\ idx \in 1..Len(ui[s].sampleLines)
  /\ EditLines(s, RemoveAt(ui[s].sampleLines, idx))

\* a note type pill is pressed
SetNoteType(s, opt) ==
  /\ ui[s].showFinishModal /\ ~ui[s].showAddModal
  /\ opt \in NoteTypes /\ opt # ui[s].noteType
  /\ SetUi(s, [ui[s] EXCEPT !.noteType = opt])
  /\ event' = "none"
  /\ UNCHANGED <<server, tracker, tasks, currentUser, faults>>

\* Cancel of the finish modal
CancelFinish(s) ==
  /\ ui[s].showFinishModal /\ ~ui[s].showAddModal
  /\ SetUi(s, [ui[s] EXCEPT !.showFinishModal = FALSE])
  /\ event' = "none"
  /\ UNCHANGED <<server, tracker, tasks, currentUser, faults>>

----------------------------------------------------------------------------
(* finish journey (VisitsSchedule.tsx 988-1056) *)

\* who of endJourneyConfirm: resolvedUsername ?? me
ConfirmWho(s) == IF ui[s].resolvedUsername # NULL THEN ui[s].resolvedUsername ELSE Me(s)

\* the server stock of rep u by type, as the invocation finds it (history, read by the properties)
StockOf(db, u) ==
  [t \in TypeSet |->
     LET m == SampleMatches(db, u, t)
     IN IF m = {} THEN 0 ELSE db[CHOOSE i \in m : \A j \in m : i <= j].qty]

\* endJourneyConfirm: the reason it returns before any remote call, "" when it goes on
ConfirmRejection(s) ==
  LET u == ui[s]
  IN IF u.activeVisitId = NoVisit THEN "confirmNoVisit"
     ELSE IF ConfirmWho(s) = NULL THEN "noVisitor"
     ELSE IF validateRequestedSamples(u.stock, u.sampleLines) # NoError THEN "rejectedShortfall"
     ELSE IF NeedsType(u.sampleLines) THEN "chooseType"
     ELSE ""

\* Save is pressed (disabled while sampleError is set) and endJourneyConfirm returns
\* early; from the validation on, sampleError is what validateRequestedSamples set
EndJourneyConfirmRejected(s) ==
  /\ ui[s].showFinishModal /\ ~ui[s].showAddModal
  /\ ui[s].sampleError = NoError
  /\ ConfirmRejection(s) # ""
  /\ event' = ConfirmRejection(s)
  /\ SetUi(s, IF ConfirmRejection(s) = "rejectedShortfall"
              THEN [ui[s] EXCEPT
                      !.sampleError = validateRequestedSamples(ui[s].stock, ui[s].sampleLines),
                      !.sending = FALSE]
              ELSE ui[s])
  /\ UNCHANGED <<server, tracker, tasks, currentUser, faults>>

\* the entries ask for more of some type than the stock st holds
ExceedsStock(entries, st) == \E i \in 1..Len(entries) : entries[i].qty > st[entries[i].type]

\* Save is pressed (disabled while sampleError is set) and endJourneyConfirm goes on
EndJourneyConfirm(s, lim) ==
  /\ ui[s].showFinishModal /\ ~ui[s].showAddModal
  /\ ui[s].sampleError = NoError
  /\ ConfirmRejection(s) = ""
  /\ LET u   == ui[s]
     IN      /\ Len(tasks[s]) < lim
             /\ SetUi(s, [u EXCEPT !.sampleError = NoError])
             /\ Spawn(s, [BlankTask EXCEPT
                    !.kind = "confirm", !.pc = "upd", !.vid = u.activeVisitId,
                    !.who = ConfirmWho(s), !.lines = u.sampleLines,
                    !.entries = Entries(u.sampleLines),
                    !.noteType = u.noteType, !.month = u.month, !.selDay = u.selectedDay,
                    !.short = ExceedsStock(Entries(u.sampleLines), StockOf(stockDb, ConfirmWho(s))),
                    !.before = StockOf(stockDb, ConfirmWho(s))])
             /\ event' = "none"
  /\ UNCHANGED <<server, tracker, currentUser, faults>>

\* faulty variant: the status and notes are written, the sample arrays are not
FinishWriteNoSamples(row, t) ==
  [row EXCEPT !.status = "done", !.notes = NotesOf(t.entries), !.visited_by = t.who,
              !.note_type = t.noteType]

\* faulty variant: the update leaves note_type out
FinishWriteNoNoteType(row, t) ==
  [row EXCEPT !.status = "done", !.notes = NotesOf(t.entries), !.visited_by = t.who,
              !.sample_type = TypesOf(t.entries), !.sample_distributed = QtysOf(t.entries)]

\* the row update of endJourneyConfirm
FinishWrite(row, t) ==
  [row EXCEPT !.status = "done", !.notes = NotesOf(t.entries), !.visited_by = t.who,
              !.note_type = t.noteType, !.sample_type = TypesOf(t.entries),
              !.sample_distributed = QtysOf(t.entries)]

\* after the stock loop: stopTracking, setCurrentVisitId(null), reset the journey
\* state, and load() begins
JourneyClosed(u) ==
  LoadStart([u EXCEPT !.showFinishModal = FALSE, !.journeyMode = FALSE,
                      !.activeVisitId = NoVisit, !.sampleLines = <<EmptyLine>>,
                      !.sampleError = NoError])

\* the stored status of visit id is done (history, read by the properties)
AlreadyDone(db, id) == \E i \in 1..Len(db) : db[i].id = id /\ db[i].status = "done"

\* the catch of endJourneyConfirm: showToast('error', ...)
ConfirmFailed(s, k) ==
  /\ event' = "finishFailed"
  /\ SetUi(s, [ui[s] EXCEPT !.sending = FALSE])
  /\ Finish(s, k)
  /\ UNCHANGED tracker

\* the stock loop moves to entry i, or the journey is closed after the last one
ConfirmAdvance(s, k, t, i) ==
  IF i <= Len(t.entries)
  THEN /\ Goto(s, k, [t EXCEPT !.pc = "find1", !.idx = i])
       /\ event' = "none"
       /\ UNCHANGED <<ui, tracker>>
  ELSE /\ Goto(s, k, [t EXCEPT !.pc = "load", !.idx = i])
       /\ SetTracker(s, setCurrentVisitId(stopTracking(tracker[s]), NoVisit))
       /\ SetUi(s, JourneyClosed(ui[s]))
       /\ event' = "closed"

\* the remote calls of endJourneyConfirm, one per step
ConfirmStep(s, k) ==
  /\ tasks[s][k].kind = "confirm"
  /\ LET t == tasks[s][k]
         e == t.entries[t.idx]
         m == SampleMatches(stockDb, t.who, e.type)
         srv == [i \in 1..Len(visitsDb) |-> FinishWrite(visitsDb[i], t)]
     IN \E ok \in Outcomes :
          /\ Charge(ok)
          /\ applied' = IF t.pc = "updq" /\ ok
                        THEN [applied EXCEPT ![t.vid, e.type] = IF @ < 2 THEN @ + 1 ELSE @]
                        ELSE applied
          /\ CASE t.pc = "upd" ->
                    /\ UNCHANGED stockDb
                    /\ IF ok
                       THEN /\ visitsDb' = MapRow(visitsDb, t.vid, srv)
                            /\ ConfirmAdvance(s, k,
                                 [t EXCEPT !.redo = AlreadyDone(visitsDb, t.vid)], 1)
                       ELSE /\ ConfirmFailed(s, k)
                            /\ UNCHANGED visitsDb
               [] t.pc = "find1" ->
                    /\ UNCHANGED <<visitsDb, stockDb>>
                    /\ IF ok
                       THEN /\ Goto(s, k, [t EXCEPT !.pc = IF m = {} THEN "ins" ELSE "find2"])
                            /\ event' = "none"
                            /\ UNCHANGED <<ui, tracker>>
                       ELSE ConfirmFailed(s, k)
               [] t.pc = "ins" ->
                    /\ UNCHANGED visitsDb
                    /\ IF ok
                       THEN /\ stockDb' = Append(stockDb, NewStockRow(stockDb, t.who, e.type))
                            /\ Goto(s, k, [t EXCEPT !.pc = "find2"])
                            /\ event' = "none"
                            /\ UNCHANGED <<ui, tracker>>
                       ELSE /\ ConfirmFailed(s, k)
                            /\ UNCHANGED stockDb
               [] t.pc = "find2" ->
                    /\ UNCHANGED <<visitsDb, stockDb>>
                    /\ IF ok /\ m # {}
                       THEN /\ \E i \in m :
                                 Goto(s, k, [t EXCEPT !.pc = "updq", !.rowId = i,
                                                      !.rowQty = stockDb[i].qty])
                            /\ event' = "none"
                            /\ UNCHANGED <<ui, tracker>>
                       ELSE ConfirmFailed(s, k)
               [] t.pc = "updq" ->
                    /\ UNCHANGED visitsDb
                    /\ IF ok
                       THEN /\ stockDb' = [stockDb EXCEPT ![t.rowId].qty = NewQty(t.rowQty, e.qty)]
                            /\ ConfirmAdvance(s, k, t, t.idx + 1)
                       ELSE /\ ConfirmFailed(s, k)
                            /\ UNCHANGED stockDb
               [] t.pc = "load" ->
                    /\ UNCHANGED <<visitsDb, stockDb, tracker>>
                    /\ SetUi(s, [(IF ok THEN LoadDone(ui[s], t, visitsDb, Me(s))
                                        ELSE LoadFailed(ui[s]))
                                 EXCEPT !.loadingSamples = TRUE])
                    /\ Goto(s, k, [t EXCEPT !.pc = "stock"])
                    /\ event' = IF ok THEN "none" ELSE "loadFailed"
               [] t.pc = "stock" ->
                    /\ UNCHANGED <<visitsDb, stockDb, tracker>>
                    /\ SetUi(s, [StockLoaded(ui[s], stockDb, t.who, ok) EXCEPT !.sending = FALSE])
                    /\ Finish(s, k)
                    /\ event' = "saved"
  /\ UNCHANGED <<weeklyDb, currentUser, tracksDb, halted>>

----------------------------------------------------------------------------
(* weekly schedule send (VisitsSchedule.tsx 1059-1101) *)

\* one visit of the payload
SnapshotOf(r) ==
  [id |-> r.id, date |-> r.visit_date, status |-> r.status, type |-> r.note_type,
   notes |-> r.notes, sample_type |-> r.sample_type, sample_distributed |-> r.sample_distributed]

\* rows.filter(r => r.visit_date >= start && r.visit_date <= end)
WeeklyRows(rws, w) ==
  LET InWeek(r) == r.visit_date >= w.start /\ r.visit_date <= w.end
  IN SelectSeq(rws, InWeek)

\* the payload row of sendWeek
WeekPayload(s) ==
  LET w == weekRangeFromISO(ui[s].selectedDay)
      weekly == WeeklyRows(ui[s].rows, w)
  IN [username |-> IF Me(s) = NULL THEN "(unknown)" ELSE Me(s),
      week_start |-> w.start, week_end |-> w.end,
      visits |-> [i \in 1..Len(weekly) |-> SnapshotOf(weekly[i])]]

\* faulty variant: a plain insert
UpsertInserts(db, row) == db \cup {row}

\* .upsert(payload, { onConflict: 'username,week_start' })
Upsert(db, row) ==
  {r \in db : ~(r.username = row.username /\ r.week_start = row.week_start)} \cup {row}

\* Send Week is pressed (disabled while sending)
SendWeek(s, lim) ==
  /\ ~ModalOpen(s) /\ ~ui[s].sending
  /\ Len(tasks[s]) < lim
  /\ SetUi(s, [ui[s] EXCEPT !.sending = TRUE])
  /\ Spawn(s, [BlankTask EXCEPT !.kind = "send", !.pc = "upsert",
                                     !.payload = <<WeekPayload(s)>>])
  /\ event' = "none"
  /\ UNCHANGED <<server, tracker, currentUser, faults>>

\* the upsert answers
SendStep(s, k) ==
  /\ tasks[s][k].kind = "send"
  /\ \E ok \in Outcomes :
       /\ Charge(ok)
       /\ weeklyDb' = IF ok THEN Upsert(weeklyDb, tasks[s][k].payload[1]) ELSE weeklyDb
       /\ event' = IF ok THEN "sent" ELSE "sendFailed"
  /\ SetUi(s, [ui[s] EXCEPT !.sending = FALSE])
  /\ Finish(s, k)
  /\ UNCHANGED <<visitsDb, stockDb, applied, tracker, currentUser, tracksDb, halted>>

----------------------------------------------------------------------------
(* add visit (VisitsSchedule.tsx 1103-1146) *)

\* "+ Add" is pressed
openAdd(s) ==
  /\ ~ModalOpen(s)
  /\ SetUi(s, [ui[s] EXCEPT !.showAddModal = TRUE])
  /\ event' = "none"
  /\ UNCHANGED <<server, tracker, tasks, currentUser, faults>>

\* Cancel of the add modal
CancelAdd(s) ==
  /\ ui[s].showAddModal
  /\ SetUi(s, [ui[s] EXCEPT !.showAddModal = FALSE])
  /\ event' = "none"
  /\ UNCHANGED <<server, tracker, tasks, currentUser, faults>>

\* Save of the add modal, with a client name and a date (valid = both well formed)
addVisit(s, date, valid, lim) ==
  /\ ui[s].showAddModal
  /\ IF ~valid
     THEN /\ event' = "addInvalid"
          /\ UNCHANGED tasks
     ELSE /\ Len(tasks[s]) < lim
          /\ Len(visitsDb) < MaxVisits
          /\ Spawn(s, [BlankTask EXCEPT !.kind = "add", !.pc = "ins", !.date = date,
                                             !.month = ui[s].month, !.selDay = ui[s].selectedDay])
          /\ event' = "none"
  /\ UNCHANGED <<server, ui, tracker, currentUser, faults>>

\* the remote calls of addVisit: the insert, then load()
AddStep(s, k) ==
  /\ tasks[s][k].kind = "add"
  /\ LET t == tasks[s][k]
     IN \E ok \in Outcomes :
          /\ Charge(ok)
          /\ IF t.pc = "ins"
             THEN IF ok /\ Len(visitsDb) < MaxVisits
                  THEN /\ visitsDb' = Append(visitsDb, NewVisitRow(Len(visitsDb) + 1, t.date, Me(s)))
                       /\ SetUi(s, LoadStart(ui[s]))
                       /\ Goto(s, k, [t EXCEPT !.pc = "load"])
                       /\ event' = "none"
                  ELSE /\ event' = "addFailed"
                       /\ SetUi(s, [ui[s] EXCEPT !.sending = FALSE])
                       /\ Finish(s, k)
                       /\ UNCHANGED visitsDb
             ELSE /\ SetUi(s, [(IF ok THEN LoadDone(ui[s], t, visitsDb, Me(s))
                                      ELSE LoadFailed(ui[s]))
                               EXCEPT !.showAddModal = FALSE, !.selectedDay = t.date,
                                      !.sending = FALSE])
                  /\ Finish(s, k)
                  /\ event' = IF ok THEN "saved" ELSE "loadFailed"
                  /\ UNCHANGED visitsDb
  /\ UNCHANGED <<stockDb, weeklyDb, applied, tracker, currentUser, tracksDb, halted>>

----------------------------------------------------------------------------
(* weekRangeFromISO(iso) called on its own: the call holds its argument, then
   its result *)

\* the dates of the two months
AllDates == 1..(SepLen + OctLen)

\* weekRangeFromISO(d) is called
WeekRangeCall(s, d) ==
  /\ d \in AllDates
  /\ tasks' = [tasks EXCEPT ![s] = <<[BlankTask EXCEPT !.kind = "week", !.pc = "call", !.date = d]>>]
  /\ event' = "none"
  /\ UNCHANGED <<server, ui, tracker, currentUser, faults>>

\* the call returns { start, end }
WeekRangeStep(s, k) ==
  LET t == tasks[s][k]
  IN /\ t.kind = "week" /\ t.pc = "call"
     /\ Goto(s, k, [t EXCEPT !.pc = "done", !.payload = <<weekRangeFromISO(t.date)>>])
     /\ event' = "none"
     /\ UNCHANGED <<server, ui, tracker, currentUser, faults>>

----------------------------------------------------------------------------
(* decrementStock(u, type, delta) called on its own, no call failing.  limit(1)
   without an order may answer with any matching row, so the call has a set of
   possible results. *)

decrementStock(db, u, type, delta) ==
  LET db1 == IF SampleMatches(db, u, type) = {}
             THEN Append(db, NewStockRow(db, u, type))
             ELSE db
  IN {[db1 EXCEPT ![i].qty = NewQty(db1[i].qty, delta)] : i \in SampleMatches(db1, u, type)}

\* decrementStock(u, type, delta) is called
DecrementCall(s, u, type, delta) ==
  /\ tasks[s] = <<>>
  /\ Spawn(s, [BlankTask EXCEPT !.kind = "decrement", !.pc = "run", !.who = u,
                                !.entries = <<[type |-> type, qty |-> delta]>>])
  /\ event' = "none"
  /\ UNCHANGED <<server, ui, tracker, currentUser, faults>>

\* the call runs to its end
DecrementStep(s, k) ==
  LET t == tasks[s][k]
  IN /\ t.kind = "decrement"
     /\ stockDb' \in decrementStock(stockDb, t.who, t.entries[1].type, t.entries[1].qty)
     /\ Finish(s, k)
     /\ event' = "decremented"
     /\ UNCHANGED <<visitsDb, weeklyDb, applied, tracksDb, halted, ui, tracker, currentUser,
                    faults>>

----------------------------------------------------------------------------
(* lib/tracking.ts called directly, as any screen may call its exports *)

\* await startTracking(userName), the permission granted
TrackStart(s, userName) ==
  /\ SetTracker(s, startTracking(tracker[s], userName))
  /\ event' = "trackingStarted"
  /\ UNCHANGED <<server, ui, tasks, currentUser, faults>>

\* await stopTracking(); the report tells a call on an idle tracker from one on a
\* running tracker
TrackStop(s) ==
  /\ SetTracker(s, stopTracking(tracker[s]))
  /\ event' = IF Idle(tracker[s]) THEN "stoppedIdle" ELSE "stoppedRunning"
  /\ UNCHANGED <<server, ui, tasks, currentUser, faults>>

\* await setCurrentVisitId(visitId)
TrackBind(s, visitId) ==
  /\ SetTracker(s, setCurrentVisitId(tracker[s], visitId))
  /\ event' = "visitBound"
  /\ UNCHANGED <<server, ui, tasks, currentUser, faults>>

----------------------------------------------------------------------------
(* lib/tracking.ts call by call.  startTracking and stopTracking are async
   functions: each is cut where it awaits, calls may overlap, and nothing cancels
   a call in flight.  An AsyncStorage write takes effect where it is issued.  The
   location stream delivers samples while it runs; the callback reads the visit
   key, builds the row and inserts it (a native batch is modelled as one row). *)

CallsOf(s)   == {k \in 1..Len(tasks[s]) : tasks[s][k].kind \in {"tstart", "tstop"}}
SamplesOf(s) == {k \in 1..Len(tasks[s]) : tasks[s][k].kind = "sample"}

\* startTracking(userName) is called: the foreground permission is requested
StartCall(s, userName) ==
  /\ Cardinality(CallsOf(s)) < MaxCalls
  /\ Spawn(s, [BlankTask EXCEPT !.kind = "tstart", !.pc = "perm", !.who = userName])
  /\ event' = "none"
  /\ UNCHANGED <<server, ui, tracker, currentUser, faults>>

\* a startTracking call returns: a call that no stopTracking overtook ends the
\* halted period
StartReturns(s, k) ==
  /\ Finish(s, k)
  /\ halted' = IF tasks[s][k].stale THEN halted ELSE [halted EXCEPT ![s] = FALSE]
  /\ event' = "startDone"

\* the next step of a startTracking call in flight
StartCallStep(s, k) ==
  LET t  == tasks[s][k]
      tr == tracker[s]
  IN /\ t.kind = "tstart"
     /\ CASE t.pc = "perm" ->
               \E granted \in BOOLEAN :
                 IF ~granted
                 THEN /\ SetTracker(s, PermissionDenied(tr, t.who))
                      /\ Finish(s, k)
                      /\ event' = "permissionDenied"
                      /\ UNCHANGED halted
                 ELSE IF tr.web
                 THEN /\ SetTracker(s, StoreUser(tr, t.who))
                      /\ Goto(s, k, [t EXCEPT !.pc = "stream"])
                      /\ event' = "none"
                      /\ UNCHANGED halted
                 ELSE /\ Goto(s, k, [t EXCEPT !.pc = "bg"])
                      /\ event' = "none"
                      /\ UNCHANGED <<tracker, halted>>
          [] t.pc = "bg" ->
               \* the answer for the background permission is only logged
               /\ SetTracker(s, StoreUser(tr, t.who))
               /\ Goto(s, k, [t EXCEPT !.pc = "stream"])
               /\ event' = "none"
               /\ UNCHANGED halted
          [] t.pc = "stream" ->
               IF tr.web
               THEN /\ SetTracker(s, StartStream(tr, t.who))
                    /\ StartReturns(s, k)
               ELSE \* hasStartedLocationUpdatesAsync answers
                    /\ Goto(s, k, [t EXCEPT !.pc = "upd", !.started = tr.started])
                    /\ event' = "none"
                    /\ UNCHANGED <<tracker, halted>>
          [] t.pc = "upd" ->
               /\ SetTracker(s, IF ~t.started THEN [tr EXCEPT !.started = TRUE] ELSE tr)
               /\ StartReturns(s, k)
     /\ UNCHANGED <<visitsDb, stockDb, weeklyDb, applied, tracksDb, ui, currentUser, faults>>

\* stopTracking() is called: the user key is removed
StopCall(s) ==
  /\ Cardinality(CallsOf(s)) < MaxCalls
  /\ SetTracker(s, [tracker[s] EXCEPT !.user = NULL])
  /\ Spawn(s, [BlankTask EXCEPT !.kind = "tstop", !.pc = "rmVisit"])
  /\ event' = "none"
  /\ UNCHANGED <<server, ui, currentUser, faults>>

\* a stopTracking call returns: the halted period begins, and the startTracking
\* calls still in flight are marked
StopReturns(s, k) ==
  /\ tasks' = [tasks EXCEPT ![s] =
                 [i \in 1..(Len(@) - 1) |->
                    LET u == RemoveAt(@, k)[i]
                    IN IF u.kind = "tstart" THEN [u EXCEPT !.stale = TRUE] ELSE u]]
  /\ halted' = [halted EXCEPT ![s] = TRUE]
  /\ event' = "stopDone"

\* the next step of a stopTracking call in flight
StopCallStep(s, k) ==
  LET t  == tasks[s][k]
      tr == tracker[s]
  IN /\ t.kind = "tstop"
     /\ CASE t.pc = "rmVisit" ->
               /\ SetTracker(s, [tr EXCEPT !.visit = NoVisit])
               /\ Goto(s, k, [t EXCEPT !.pc = "stream"])
               /\ event' = "none"
               /\ UNCHANGED halted
          [] t.pc = "stream" ->
               IF tr.web
               THEN /\ SetTracker(s, stopWebWatch(tr))
                    /\ StopReturns(s, k)
               ELSE \* hasStartedLocationUpdatesAsync answers
                    /\ Goto(s, k, [t EXCEPT !.pc = "upd", !.started = tr.started])
                    /\ event' = "none"
                    /\ UNCHANGED <<tracker, halted>>
          [] t.pc = "upd" ->
               /\ SetTracker(s, IF t.started THEN [tr EXCEPT !.started = FALSE] ELSE tr)
               /\ StopReturns(s, k)
     /\ UNCHANGED <<visitsDb, stockDb, weeklyDb, applied, tracksDb, ui, currentUser, faults>>

\* user_name of a row: the userName the web callback closed over, or the user key
\* the native handler reads
SampleUser(tr) == IF tr.web THEN tr.watchUser ELSE tr.user

\* the row of visit_tracks a sample task inserts (position and time left out)
SampleRow(t, tr) ==
  [visit_id |-> t.vid, user_name |-> t.who, source |-> IF tr.web THEN "web" ELSE "gps"]

\* the running stream delivers a position: the callback reads the visit key and
\* builds the row
Emit(s) ==
  /\ Streaming(tracker[s])
  /\ Len(tracksDb) + Cardinality(SamplesOf(s)) < MaxSamples
  /\ Spawn(s, [BlankTask EXCEPT !.kind = "sample", !.pc = "ins", !.vid = tracker[s].visit,
                                !.who = SampleUser(tracker[s]), !.stale = halted[s]])
  /\ event' = "sampleEmitted"
  /\ UNCHANGED <<server, ui, tracker, currentUser, faults>>

\* faulty variant: a failed insert stops tracking
InsertFailedStops(tr) == stopTracking(tr)

\* the tracker after the insert failed: the error is logged, nothing else
InsertFailed(tr) == tr

\* the insert into visit_tracks answers
SampleStep(s, k) ==
  LET t == tasks[s][k]
  IN /\ t.kind = "sample"
     /\ \E ok \in Outcomes :
          /\ Charge(ok)
          /\ IF ok
             THEN /\ tracksDb' = Append(tracksDb, SampleRow(t, tracker[s]))
                  /\ event' = "none"
                  /\ UNCHANGED tracker
             ELSE /\ SetTracker(s, InsertFailed(tracker[s]))
                  /\ event' = "sampleDropped"
                  /\ UNCHANGED tracksDb
     /\ Finish(s, k)
     /\ UNCHANGED <<visitsDb, stockDb, weeklyDb, applied, halted, ui, currentUser>>

----------------------------------------------------------------------------
(* Initial state: the screen is mounted, its first load() is in flight *)

InitUi ==
  [month |-> MonthOf(Today), rows |-> <<>>, selectedDay |-> Today, loading |-> TRUE,
   errorMsg |-> FALSE, journeyMode |-> FALSE, activeVisitId |-> NoVisit,
   showFinishModal |-> FALSE, noteType |-> "SALES ORDER", resolvedUsername |-> NULL,
   loadingSamples |-> FALSE, stock |-> <<>>, sampleLines |-> <<EmptyLine>>,
   sampleError |-> NoError, showAddModal |-> FALSE, sending |-> FALSE]

InitTracker(web) ==
  [user |-> NULL, visit |-> NoVisit, webWatchId |-> 0, watches |-> 0, watchUser |-> NULL,
   started |-> FALSE, web |-> web]

\* a row of sample_distribution
StockRow(id, u, type, qty) == [id |-> id, username |-> u, sample_type |-> type, qty |-> qty]

\* the seeded stock lines, of two reps
SeedStock ==
  <<StockRow(1, Rep, "VitA", InitQtyA), StockRow(2, Rep, "Zinc", InitQtyB),
    StockRow(3, OtherRep, "VitA", InitQtyA)>>

InitWith(live, users, nfaults, seed, stock) ==
  /\ visitsDb = seed
  /\ stockDb = stock
  /\ weeklyDb = {}
  /\ ui = [s \in Sessions |-> InitUi]
  /\ tracker = [s \in Sessions |-> InitTracker(s = 1)]
  /\ tasks = [s \in Sessions |-> IF s \in live THEN <<LoadTask(s, InitUi)>> ELSE <<>>]
  /\ currentUser \in [Sessions -> users]
  /\ faults = nfaults
  /\ event = "none"
  /\ applied = [v \in 1..MaxVisits, t \in TypeSet |-> 0]
  /\ tracksDb = <<>>
  /\ halted = [s \in Sessions |-> FALSE]

----------------------------------------------------------------------------
(* The steps of the handlers in flight, and the controls of the screen *)

Step(s) ==
  \/ \E k \in 1..Len(tasks[s]) : LoadStep(s, k)
  \/ \E k \in 1..Len(tasks[s]) : StartStep(s, k)
  \/ \E k \in 1..Len(tasks[s]) : SelectStep(s, k)
  \/ \E k \in 1..Len(tasks[s]) : OpenStep(s, k)
  \/ \E k \in 1..Len(tasks[s]) : ConfirmStep(s, k)

Ignored(s) ==
  \/ StartJourneyIgnored(s)
  \/ \E j \in 1..MaxVisits : SelectVisitIgnored(s, j)
  \/ EndJourneyOpenIgnored(s)
  \/ EndJourneyConfirmRejected(s)

Journey(s, lim) ==
  \/ StartJourney(s, lim)
  \/ \E j \in 1..MaxVisits : SelectVisit(s, j, lim)
  \/ EndJourneyOpen(s, lim)
  \/ \E idx \in 1..MaxLines, p \in 1..Len(AllTypes) : setLineType(s, idx, p)
  \/ \E idx \in 1..MaxLines, q \in 0..MaxQty : setLineQty(s, idx, q)
  \/ EndJourneyConfirm(s, lim)

Modal(s) ==
  \/ addLine(s)
  \/ \E idx \in 1..MaxLines : removeLine(s, idx)
  \/ CancelFinish(s)

Calendar(s, lim) ==
  \/ \E m \in MinMonth..MaxMonth : MonthNav(s, m, lim)
  \/ \E d \in DaySet : SelectDay(s, d)

Adding(s, lim) ==
  \/ openAdd(s)
  \/ CancelAdd(s)
  \/ \E d \in DaySet, valid \in BOOLEAN : addVisit(s, d, valid, lim)
  \/ \E k \in 1..Len(tasks[s]) : AddStep(s, k)

----------------------------------------------------------------------------
(* Spec: one session and one seeded visit: the calendar, added visits, journeys
   and their finalization.  Every remote call succeeds, and a handler is
   started when none is in flight. *)

Init == InitWith({1}, {Rep}, 0, <<NewVisitRow(1, Today, NULL)>>, SeedStock)

Next == Step(1) \/ Journey(1, 1) \/ Ignored(1) \/ Calendar(1, 1) \/ Adding(1, 1) \/ addLine(1)

Spec == Init /\ [][Next]_vars

(* SpecFault: one session and one visit, the whole finish modal, and injected
   remote failures *)

InitFault == InitWith({1}, {Rep}, MaxFaults, <<NewVisitRow(1, Today, NULL)>>, SeedStock)

NextFault == Step(1) \/ Journey(1, 1) \/ Modal(1) \/ Retry(1, 1) \/ EndJourneyConfirmRejected(1)

SpecFault == InitFault /\ [][NextFault]_vars

(* SpecFaultLive: SpecFault where a handler in flight is resumed whenever the
   call it awaits has answered; nothing obliges the user to press anything *)

SpecFaultLive == InitFault /\ [][NextFault]_vars /\ WF_vars(Step(1))

(* SpecNote: one session and one unassigned visit, with or without a logged-in
   user, and the note type pills of the finish modal *)

InitNote == InitWith({1}, {"", Rep}, 0, <<NewVisitRow(1, Today, NULL)>>, SeedStock)

NextNote ==
  \/ Step(1) \/ Journey(1, 1) \/ Ignored(1)
  \/ \E opt \in NoteTypes : SetNoteType(1, opt)

SpecNote == InitNote /\ [][NextNote]_vars

(* SpecStock: decrementStock called directly with any rep, type and quantity, on
   an empty table, on the seeded one, and on one that holds another rep's line *)

InitStock ==
  \E stock \in {<<>>, SeedStock, <<StockRow(1, OtherRep, "vita", InitQtyA)>>} :
    InitWith({}, {Rep}, 0, <<>>, stock)

NextStock ==
  \/ \E u \in {Rep, OtherRep} : \E type \in TypeSet : \E delta \in 1..(MaxQty + 1) :
       DecrementCall(1, u, type, delta)
  \/ \E k \in 1..Len(tasks[1]) : DecrementStep(1, k)

SpecStock == InitStock /\ [][NextStock]_vars

(* SpecWeekRange: weekRangeFromISO applied to every date of the two months *)

InitWeekRange == InitWith({}, {Rep}, 0, <<>>, <<>>)

NextWeekRange ==
  \/ \E d \in AllDates : WeekRangeCall(1, d)
  \/ \E k \in 1..Len(tasks[1]) : WeekRangeStep(1, k)

SpecWeekRange == InitWeekRange /\ [][NextWeekRange]_vars

(* SpecConc: the rep is logged in on two devices (one web, one native), each
   running journeys over the same seeded visit and the same stock line *)

InitConc ==
  InitWith(Sessions, {Rep}, 0, <<NewVisitRow(1, Today, Rep)>>, <<StockRow(1, Rep, "Zinc", InitQtyB)>>)

NextConc == \E s \in Sessions : Step(s) \/ Journey(s, 1)

SpecConc == InitConc /\ [][NextConc]_vars

(* SpecRace: the rep is logged in on two devices; device 1 runs its journeys on
   visit 1 and device 2 on visit 2, both giving samples from the same stock line *)

InitRace ==
  InitWith(Sessions, {Rep}, 0, <<NewVisitRow(1, Today, Rep), NewVisitRow(2, Today, Rep)>>,
           <<StockRow(1, Rep, "Zinc", InitQtyB)>>)

NextRace ==
  \E s \in Sessions :
    \/ Step(s)
    \/ StartJourney(s, 1)
    \/ SelectVisit(s, s, 1)
    \/ EndJourneyOpen(s, 1)
    \/ \E idx \in 1..MaxLines, p \in 1..Len(AllTypes) : setLineType(s, idx, p)
    \/ \E idx \in 1..MaxLines, q \in 0..MaxQty : setLineQty(s, idx, q)
    \/ EndJourneyConfirm(s, 1)

SpecRace == InitRace /\ [][NextRace]_vars

(* SpecWeek: one session publishing weekly snapshots while the calendar moves
   between months and visits are added *)

InitWeek == InitWith({1}, {Rep}, 0, <<NewVisitRow(1, Today, NULL)>>, SeedStock)

NextWeek ==
  \/ \E k \in 1..Len(tasks[1]) : LoadStep(1, k)
  \/ \E k \in 1..Len(tasks[1]) : SendStep(1, k)
  \/ SendWeek(1, 1)
  \/ Calendar(1, 1)
  \/ Adding(1, 1)

SpecWeek == InitWeek /\ [][NextWeek]_vars

(* SpecTrack: the tracking helper alone, on a web and a native device *)

InitTrack == InitWith({}, {Rep}, 0, <<>>, <<>>)

NextTrack ==
  \E s \in Sessions :
    \/ \E userName \in {NULL, Rep} : TrackStart(s, userName)
    \/ TrackStop(s)
    \/ \E visitId \in 0..MaxVisits : TrackBind(s, visitId)

SpecTrack == InitTrack /\ [][NextTrack]_vars

(* SpecStream: the tracking helper call by call on one device, web or native,
   with overlapping calls, samples and failing inserts *)

InitStream ==
  /\ visitsDb = <<>>
  /\ stockDb = <<>>
  /\ weeklyDb = {}
  /\ ui = [s \in Sessions |-> InitUi]
  /\ \E web \in BOOLEAN : tracker = [s \in Sessions |-> InitTracker(web)]
  /\ tasks = [s \in Sessions |-> <<>>]
  /\ currentUser = [s \in Sessions |-> Rep]
  /\ faults = MaxFaults
  /\ event = "none"
  /\ applied = [v \in 1..MaxVisits, t \in TypeSet |-> 0]
  /\ tracksDb = <<>>
  /\ halted = [s \in Sessions |-> FALSE]

NextStream ==
  \/ \E userName \in {NULL, Rep} : StartCall(1, userName)
  \/ \E k \in 1..Len(tasks[1]) : StartCallStep(1, k)
  \/ StopCall(1)
  \/ \E k \in 1..Len(tasks[1]) : StopCallStep(1, k)
  \/ \E visitId \in {NoVisit, 1} : TrackBind(1, visitId)
  \/ Emit(1)
  \/ \E k \in 1..Len(tasks[1]) : SampleStep(1, k)

SpecStream == InitStream /\ [][NextStream]_vars

(* SpecStreamRep: SpecStream where every startTracking call is given the rep *)

NextStreamRep ==
  \/ StartCall(1, Rep)
  \/ \E k \in 1..Len(tasks[1]) : StartCallStep(1, k)
  \/ StopCall(1)
  \/ \E k \in 1..Len(tasks[1]) : StopCallStep(1, k)
  \/ \E visitId \in {NoVisit, 1} : TrackBind(1, visitId)
  \/ Emit(1)
  \/ \E k \in 1..Len(tasks[1]) : SampleStep(1, k)

SpecStreamRep == InitStream /\ [][NextStreamRep]_vars

----------------------------------------------------------------------------
(* Properties *)

\* the visits of rep u that are stored as en_route
EnRouteOf(u) ==
  {i \in 1..Len(visitsDb) : visitsDb[i].status = "en_route" /\ visitsDb[i].visited_by = u}

\* C1: in the visit store, at most one visit of a rep is en_route at any time
C1_AtMostOneEnRoute == \A u \in {Rep, OtherRep} : Cardinality(EnRouteOf(u)) <= 1

\* the finalize attempts in flight in session s
ConfirmsOf(s) == {k \in 1..Len(tasks[s]) : tasks[s][k].kind = "confirm"}

\* C2: a finalize attempt that requests more of a type than the rep's stock line
\* holds is rejected at Save: none gets past the validation to the remote writes
C2_ShortfallRejected ==
  \A s \in Sessions : \A k \in ConfirmsOf(s) : ~tasks[s][k].short

\* C3: the stock decrements of a visit's finalization are applied at most once per
\* type, and no finalize attempt writes a visit whose stored status is already done
C3_DoneOneShot ==
  /\ \A v \in 1..MaxVisits, t \in TypeSet : applied[v, t] <= 1
  /\ \A s \in Sessions : \A k \in ConfirmsOf(s) : ~tasks[s][k].redo

\* C4: every stock line holds a quantity that is an integer >= 0
C4_StockNonNegative == \A i \in 1..Len(stockDb) : stockDb[i].qty \in Nat

\* two finalizations of the two sessions are about to write the same stock line
C4_ConcurrentWrites ==
  /\ ConfirmsOf(1) # {} /\ ConfirmsOf(2) # {}
  /\ \A s \in Sessions : \A k \in ConfirmsOf(s) : tasks[s][k].pc = "updq"
  /\ \E k \in ConfirmsOf(1), j \in ConfirmsOf(2) : tasks[1][k].rowId = tasks[2][j].rowId

\* the types the lines request, and the finalization that has just closed the journey
RequestedTypes(lines) == {t \in TypeSet : SumQty(lines, t, 1) > 0}
JustClosed(s) == {k \in ConfirmsOf(s) : tasks[s][k].pc = "load"}

\* C5: when a finalization whose requested quantities are within the rep's stock
\* has made all its writes, the visit is stored as done, its sample arrays hold each
\* requested type once with the quantity summed over the lines, and each requested
\* type's stock line holds its prior quantity minus that sum
C5_FinalizeSuccess ==
  \A k \in JustClosed(1) :
    LET t    == tasks[1][k]
        row  == visitsDb[t.vid]
        req  == RequestedTypes(t.lines)
        now  == StockOf(stockDb, t.who)
    IN (event = "closed" /\ \A ty \in req : SumQty(t.lines, ty, 1) <= t.before[ty]) =>
         /\ row.status = "done"
         /\ Len(row.sample_type) = Cardinality(req)
         /\ Len(row.sample_distributed) = Cardinality(req)
         /\ \A ty \in req : \E a \in 1..Len(row.sample_type) :
              /\ row.sample_type[a] = ty
              /\ row.sample_distributed[a] = SumQty(t.lines, ty, 1)
         /\ \A ty \in req : now[ty] = t.before[ty] - SumQty(t.lines, ty, 1)

\* a finalization of two lines of one type has just made its writes
C5_AggregatedSaved ==
  /\ event = "closed"
  /\ \E k \in JustClosed(1) :
       /\ Len(tasks[1][k].lines) = 2
       /\ \E ty \in TypeSet : SumQty(tasks[1][k].lines, ty, 1) = 2

\* no startJourney of session s is waiting for startTracking
NoStartInFlight(s) == \A k \in 1..Len(tasks[s]) : tasks[s][k].kind # "start"

\* C6: while the selected day has no visits, no step begins a journey: startTracking
\* is not called, no stream starts and journeyMode stays false
C6_StartJourneyNoVisitsNoOp ==
  [][(Len(DayVisits(1)) = 0 /\ ~ui[1].journeyMode /\ NoStartInFlight(1))
       => /\ NoStartInFlight(1)'
          /\ ~ui'[1].journeyMode
          /\ tracker'[1] = tracker[1]]_vars

\* startJourney has been invoked on a day without visits
C6_IgnoredOnEmptyDay ==
  /\ event = "startIgnored"
  /\ Len(DayVisits(1)) = 0
  /\ ~ui[1].journeyMode /\ ~Streaming(tracker[1])

\* C7: a stopTracking call, on a running or an idle tracker, leaves no stream, no
\* stored rep and no stored visit, and a second call right after it changes nothing
C7_StopTrackingIdempotent ==
  [][event' \in {"stoppedIdle", "stoppedRunning"} =>
       \E s \in Sessions :
         /\ tracker' = [tracker EXCEPT ![s] = stopTracking(tracker[s])]
         /\ tracker'[s].user = NULL /\ tracker'[s].visit = NoVisit
         /\ tracker'[s].webWatchId = 0 /\ tracker'[s].watches = 0
         /\ ~tracker'[s].started
         /\ stopTracking(tracker'[s]) = tracker'[s]]_vars

\* stopTracking has been called on a tracker that was not running
C7_StoppedWhenIdle == event = "stoppedIdle" /\ \A s \in Sessions : Idle(tracker[s])

\* the snapshots stored under the key of payload p
SameKey(db, p) == {r \in db : r.username = p.username /\ r.week_start = p.week_start}

\* C8: when a sendWeek succeeds, the weekly store holds exactly one snapshot for the
\* (rep, week_start) of its payload, and that snapshot is the payload
C8_SendWeekOverwrites ==
  [][(Len(tasks[1]) = 1 /\ tasks[1][1].kind = "send" /\ event' = "sent")
       => SameKey(weeklyDb', tasks[1][1].payload[1]) = {tasks[1][1].payload[1]}]_vars

\* a second sendWeek for a stored key is in flight with different visits
C8_SecondSendDiffers ==
  /\ Len(tasks[1]) = 1 /\ tasks[1][1].kind = "send"
  /\ \E r \in SameKey(weeklyDb, tasks[1][1].payload[1]) :
       r.visits # tasks[1][1].payload[1].visits

\* C9: in every stored visit the two sample arrays have the same length and order
\* (entry a of each is the a-th sample of the notes), no type repeats, and every
\* quantity is a positive integer
C9_SampleArraysWellFormed ==
  \A i \in 1..Len(visitsDb) :
    LET r == visitsDb[i]
    IN /\ Len(r.sample_type) = Len(r.sample_distributed)
       /\ \A a, b \in 1..Len(r.sample_type) : a # b => r.sample_type[a] # r.sample_type[b]
       /\ \A a \in 1..Len(r.sample_type) : r.sample_type[a] \in TypeSet
       /\ \A a \in 1..Len(r.sample_distributed) :
            r.sample_distributed[a] \in Nat /\ r.sample_distributed[a] > 0
       /\ r.notes # NoNotes =>
            r.notes.samples = [a \in 1..Len(r.sample_type) |->
                                 [type |-> r.sample_type[a], qty |-> r.sample_distributed[a]]]

\* an added visit and a finalized visit with two sample types are stored
C9_AddedAndFinalized ==
  /\ Len(visitsDb) = 2
  /\ \E i \in 1..Len(visitsDb) : visitsDb[i].status = "planned" /\ visitsDb[i].sample_type = <<>>
  /\ \E i \in 1..Len(visitsDb) : visitsDb[i].status = "done" /\ Len(visitsDb[i].sample_type) = 2

\* C10: once a visit is stored as done or skipped, no step changes its stored status
C10_TerminalStatus ==
  [][\A i \in 1..Len(visitsDb) :
       visitsDb[i].status \in {"done", "skipped"} => visitsDb'[i].status = visitsDb[i].status]_vars

\* C11: when the location permission is refused, the start attempt changes neither
\* the tracker (no rep stored, no stream started) nor the journey state of the
\* screen (journeyMode stays false, activeVisitId keeps its value)
C11_DeniedChangesNothing ==
  [][event' = "permissionDenied" =>
       /\ tracker' = tracker
       /\ \A s \in Sessions :
            /\ ~ui'[s].journeyMode
            /\ ui'[s].activeVisitId = ui[s].activeVisitId]_vars

C11_DeniedWhileIdle ==
  /\ event = "permissionDenied"
  /\ ~ui[1].journeyMode
  /\ Idle(tracker[1])
  /\ tasks[1] = <<>>

\* the location streams a device runs: browser watches, or the one native task
StreamCount(tr) == IF tr.web THEN tr.watches ELSE IF tr.started THEN 1 ELSE 0

\* C12: whatever startTracking and stopTracking calls run or overlap, a device
\* never runs more than one location stream
C12_AtMostOneStream == \A s \in Sessions : StreamCount(tracker[s]) <= 1

\* a second startTracking call has returned on a web device while the stream of
\* the first was running, and another call is still in flight
C12_RestartedWhileRunning ==
  /\ tracker[1].web
  /\ event = "startDone"
  /\ StreamCount(tracker[1]) = 1
  /\ tracksDb # <<>>
  /\ \E k \in CallsOf(1) : tasks[1][k].kind = "tstart"

\* C13: setCurrentVisitId changes the stored visit key and nothing else (stream,
\* stored rep, calls in flight and rows stay as they are); the key changes only
\* there and in stopTracking; every sample carries the key stored when it is
\* emitted, and the row inserted for it carries the same tag
C13_BindChangesOnlyVisitKey ==
  [][\A s \in Sessions :
       /\ event' = "visitBound" =>
            /\ \A r \in Sessions :
                 tracker'[r] = [tracker[r] EXCEPT !.visit = tracker'[r].visit]
            /\ tasks' = tasks
            /\ tracksDb' = tracksDb
       /\ tracker'[s].visit # tracker[s].visit =>
            \/ event' = "visitBound"
            \/ \E k \in 1..Len(tasks[s]) : tasks[s][k].kind = "tstop" /\ tasks[s][k].pc = "rmVisit"
       /\ event' = "sampleEmitted" /\ Len(tasks'[s]) > Len(tasks[s]) =>
            tasks'[s][Len(tasks'[s])].vid = tracker[s].visit
       /\ Len(tracksDb') > Len(tracksDb) /\ tasks'[s] # tasks[s] =>
            \E k \in SamplesOf(s) : tracksDb'[Len(tracksDb')].visit_id = tasks[s][k].vid]_vars

\* a row tagged with visit 1 is stored while the stream runs and the key is
\* still bound to visit 1
C13_TaggedRowStored ==
  /\ Streaming(tracker[1])
  /\ tracker[1].visit = 1
  /\ tracksDb # <<>>
  /\ tracksDb[Len(tracksDb)].visit_id = 1

\* C14: a failed insert of a location row drops that row and nothing else: the
\* tracker (stream, stored rep, stored visit) is as before, no row is stored, and
\* the sample is gone from the calls in flight without a second attempt
C14_FailedInsertDropsSample ==
  [][event' = "sampleDropped" =>
       /\ tracker' = tracker
       /\ tracksDb' = tracksDb
       /\ \A s \in Sessions :
            /\ Len(tasks'[s]) <= Len(tasks[s])
            /\ Cardinality({k \in 1..Len(tasks'[s]) : tasks'[s][k].kind = "sample"})
                 <= Cardinality(SamplesOf(s))
            /\ tasks'[s] # tasks[s] =>
                 Cardinality({k \in 1..Len(tasks'[s]) : tasks'[s][k].kind = "sample"})
                   < Cardinality(SamplesOf(s))]_vars

\* the one injected failure has dropped a sample, the stream is still running,
\* and a sample emitted afterwards is stored
C14_StoredAfterDrop ==
  /\ faults = 0
  /\ Streaming(tracker[1])
  /\ tracker[1].user = Rep
  /\ Len(tracksDb) = 1

\* C15: after a stopTracking call has completed, and until a startTracking call
\* invoked after it succeeds, the stream delivers no sample (no sample in flight
\* was emitted in such a period)
C15_NoSampleAfterStop ==
  \A s \in Sessions : \A k \in SamplesOf(s) : ~tasks[s][k].stale

\* C16: a stored status goes from planned to en_route only in a step of a
\* selectVisit call on that visit, in a session whose journey is active and whose
\* finish modal is closed; a selectVisit call that returns at once writes nothing
\* and leaves the screen, the tracker and the calls in flight as they are
C16_EnRouteOnlyInJourney ==
  [][/\ \A i \in 1..Len(visitsDb) :
          visitsDb[i].status = "planned" /\ visitsDb'[i].status = "en_route" =>
            \E s \in Sessions : \E k \in 1..Len(tasks[s]) :
              /\ tasks[s][k].kind = "select" /\ tasks[s][k].vid = visitsDb[i].id
              /\ ui[s].journeyMode /\ ~ui[s].showFinishModal
              /\ Len(tasks'[s]) < Len(tasks[s])
     /\ event' = "selectIgnored" =>
          /\ visitsDb' = visitsDb /\ ui' = ui /\ tracker' = tracker /\ tasks' = tasks
          /\ \E s \in Sessions : \E j \in 1..Len(DayVisits(s)) :
               \/ ~ui[s].journeyMode
               \/ ui[s].showFinishModal
               \/ DayVisits(s)[j].status \in {"done", "skipped"}]_vars

\* visit 1 is en route in an active journey and bound to the session
C16_SelectedInJourney ==
  /\ ui[1].journeyMode /\ ~ui[1].showFinishModal
  /\ visitsDb[1].status = "en_route"
  /\ ui[1].activeVisitId = 1
  /\ tracker[1].visit = 1
  /\ tasks[1] = <<>>

\* C17: when a selectVisit call writes an en_route visit back to planned, the
\* session is left without a bound visit: activeVisitId is null and the tracker
\* holds no visit key
C17_DeselectClearsBinding ==
  [][\A s \in Sessions : \A k \in 1..Len(tasks[s]) :
       /\ tasks[s][k].kind = "select" /\ tasks[s][k].nextStatus = "planned"
       /\ visitsDb[tasks[s][k].vid].status = "en_route"
       /\ visitsDb'[tasks[s][k].vid].status = "planned"
       => /\ ui'[s].activeVisitId = NoVisit
          /\ tracker'[s].visit = NoVisit]_vars

\* an endJourneyConfirm call of session s has stored its visit as done
MarkedDone(s) ==
  \E k \in 1..Len(tasks[s]) :
    /\ tasks[s][k].kind = "confirm" /\ tasks[s][k].pc # "upd"
    /\ AlreadyDone(visitsDb, tasks[s][k].vid)

\* the journey session of s is cleared and its location reporting stopped
SessionCleared(s) ==
  /\ ~ui[s].journeyMode /\ ui[s].activeVisitId = NoVisit /\ ~ui[s].showFinishModal
  /\ Idle(tracker[s])

\* C18: every endJourneyConfirm call that has stored the visit as done is
\* followed by a state where the journey session is cleared and the tracker idle
C18_DoneLeadsToCleared == MarkedDone(1) ~> SessionCleared(1)

\* C19: every visit a step leaves stored as done carries a visitor and one of the
\* three note types; a finalize refused for want of a rep writes no visit and
\* starts no call
C19_DoneHasVisitorAndNoteType ==
  [][/\ \A i \in 1..Len(visitsDb') :
          visitsDb'[i].status = "done" =>
            /\ visitsDb'[i].visited_by \notin {NULL, ""}
            /\ visitsDb'[i].note_type \in {"SALES ORDER", "RFR", "COLLECTION"}
     /\ event' \in {"endNoUser", "noVisitor"} =>
          /\ visitsDb' = visitsDb /\ tasks' = tasks
          /\ \A s \in Sessions : ui'[s].showFinishModal = ui[s].showFinishModal]_vars

\* without a logged-in user, End Journey on the selected unassigned visit is
\* refused and the visit stays en route without a visitor
C19_RefusedWithoutRep ==
  /\ event = "endNoUser"
  /\ currentUser[1] = ""
  /\ ui[1].activeVisitId = 1
  /\ visitsDb[1].status = "en_route" /\ visitsDb[1].visited_by = NULL
  /\ ~ui[1].showFinishModal

LocalAgrees(s) ==
  \A i \in 1..Len(ui[s].rows) :
    \E j \in 1..Len(visitsDb) :
      /\ visitsDb[j].id = ui[s].rows[i].id
      /\ visitsDb[j].status = ui[s].rows[i].status
      /\ visitsDb[j].visited_by = ui[s].rows[i].visited_by
      /\ visitsDb[j].notes = ui[s].rows[i].notes

\* C21: when a remote write of selectVisit, endJourneyOpen or endJourneyConfirm
\* has failed, the visit rows the session holds agree with the stored rows
C21_FailedWriteLeavesRowsInAgreement ==
  [][event' \in {"statusFailed", "claimFailed", "finishFailed"} => LocalAgrees(1)']_vars

\* C22: for every date d of the two months, weekRangeFromISO(d) gives a Monday
\* as start and the Sunday six days later as end, with start <= d <= end
C22_WeekIsMondayToSunday ==
  \A k \in 1..Len(tasks[1]) :
    tasks[1][k].kind = "week" /\ tasks[1][k].pc = "done" =>
      LET w == tasks[1][k].payload[1]
          d == tasks[1][k].date
      IN /\ w.start % 7 = 1
         /\ w.end % 7 = 0
         /\ w.end = w.start + 6
         /\ w.start <= d /\ d <= w.end

\* the week of Sunday 2025-09-28 ends on that day
C22_SundayEndsItsWeek ==
  /\ Len(tasks[1]) = 1
  /\ tasks[1][1].kind = "week" /\ tasks[1][1].pc = "done"
  /\ tasks[1][1].date = 28
  /\ tasks[1][1].payload[1] = [start |-> 22, end |-> 28]

\* the ids of the stored visits that load() gives rep u (the rep's own and the
\* unassigned ones) dated from lo to hi
StoredInWeek(u, lo, hi) ==
  {visitsDb[i].id : i \in {j \in 1..Len(visitsDb) :
                            /\ visitsDb[j].visited_by \in {u, NULL}
                            /\ visitsDb[j].visit_date >= lo /\ visitsDb[j].visit_date <= hi}}

\* C23: a snapshot that sendWeek stores holds exactly the rep's stored visits
\* dated within its week
C23_SnapshotHoldsTheWeek ==
  [][\A r \in weeklyDb' \ weeklyDb :
       {r.visits[i].id : i \in 1..Len(r.visits)} = StoredInWeek(r.username, r.week_start, r.week_end)]_vars

\* C24: a step that changes the stock table is a step of an endJourneyConfirm
\* call past its visit update; it removes no line, and every line it adds or
\* changes belongs to the rep of the call and has a type the visit records
C24_StockChangedOnlyByFinalize ==
  [][stockDb' # stockDb =>
       \E s \in Sessions : \E k \in 1..Len(tasks[s]) :
         LET t == tasks[s][k]
             recorded == visitsDb[t.vid].sample_type
         IN /\ t.kind = "confirm" /\ t.pc \in {"ins", "updq"}
            /\ Len(stockDb') >= Len(stockDb)
            /\ \A i \in 1..Len(stockDb') :
                 (i > Len(stockDb) \/ stockDb'[i] # stockDb[i]) =>
                   /\ stockDb'[i].username = t.who
                   /\ stockDb'[i].username = visitsDb[t.vid].visited_by
                   /\ \E j \in 1..Len(recorded) : recorded[j] = stockDb'[i].sample_type]_vars

\* no handler of session s is in flight
Quiescent(s) == tasks[s] = <<>>

\* C25: in every quiescent state of the screen, a session that is not in a
\* journey runs no location stream
C25_NoStreamOutsideJourney ==
  Quiescent(1) /\ ~ui[1].journeyMode => ~Streaming(tracker[1])

\* the ids of the visits session s shows as en_route
ShownEnRoute(s) ==
  {ui[s].rows[i].id : i \in {j \in 1..Len(ui[s].rows) : ui[s].rows[j].status = "en_route"}}

\* C26: in every quiescent state of a journey, activeVisitId is set exactly when
\* a shown visit is en_route, it names an en_route visit, and the tracker's
\* visit key equals it
C26_BindingMatchesStatuses ==
  Quiescent(1) /\ ui[1].journeyMode =>
    /\ (ui[1].activeVisitId # NoVisit) = (ShownEnRoute(1) # {})
    /\ ui[1].activeVisitId # NoVisit => ui[1].activeVisitId \in ShownEnRoute(1)
    /\ tracker[1].visit = ui[1].activeVisitId

\* C27: when the session is quiescent and out of a journey (none was started, or
\* the last one has ended), no visit of its rep is stored as en_route
C27_NoEnRouteAfterJourney ==
  Quiescent(1) /\ ~ui[1].journeyMode =>
    \A i \in 1..Len(visitsDb) :
      visitsDb[i].visited_by = Me(1) => visitsDb[i].status # "en_route"

RECURSIVE RecordedQty(_, _, _)
\* the quantity of type the arrays of a visit row record, from position j on
RecordedQty(row, type, j) ==
  IF j > Len(row.sample_type) THEN 0
  ELSE (IF row.sample_type[j] = type THEN row.sample_distributed[j] ELSE 0)
       + RecordedQty(row, type, j + 1)

RECURSIVE TotalRecorded(_, _, _)
\* the quantity of type recorded on the done visits of rep u, from row i on
TotalRecorded(u, type, i) ==
  IF i > Len(visitsDb) THEN 0
  ELSE (IF visitsDb[i].status = "done" /\ visitsDb[i].visited_by = u
        THEN RecordedQty(visitsDb[i], type, 1) ELSE 0)
       + TotalRecorded(u, type, i + 1)

\* C28: whenever no finalization is in flight, the Zinc recorded on the rep's
\* done visits equals the seeded Zinc stock minus the stock left
C28_StockConserved ==
  (\A s \in Sessions : Quiescent(s)) =>
    TotalRecorded(Rep, "Zinc", 1) = InitQtyB - stockDb[1].qty

\* C29: whenever no handler is in flight, every sample line a done visit records
\* has been taken from the stock (so a finalization whose stock calls failed has
\* not left the visit stored as done)
C29_DoneMeansDecremented ==
  Quiescent(1) =>
    \A i \in 1..Len(visitsDb) :
      visitsDb[i].status = "done" =>
        \A j \in 1..Len(visitsDb[i].sample_type) :
          applied[visitsDb[i].id, visitsDb[i].sample_type[j]] >= 1

\* C30: when every startTracking call is given the rep, every row of the
\* location store carries the rep
C30_RowsCarryTheRep ==
  \A i \in 1..Len(tracksDb) : tracksDb[i].user_name = Rep

====
